---- MODULE Spec2Model ----
(***************************************************************************)
(* Model of bindings/python/setup.py of libpersist: the build script that  *)
(* pins the compiler, defaults DESTDIR, assembles the compile and link     *)
(* flag lists from the process environment and hands one Cython extension  *)
(* to distutils' setup().                                                  *)
(*                                                                         *)
(* Text is modelled as a sequence of one-character strings so that         *)
(* os.path.expandvars is computed character by character.  The process     *)
(* environment os.environ is a function whose DOMAIN is the set of         *)
(* variables that are present.                                             *)
(***************************************************************************)
EXTENDS Integers, Sequences, FiniteSets, TLC

(* ------------------------------ bounds --------------------------------- *)

\* longest initial value of CMAKE_SOURCE_DIR / CMAKE_PREFIX that is explored
MaxValLen == 3

\* characters the explored values are made of: a path separator, the
\* expansion sigil, and a letter that (doubled) spells the name of a
\* variable the script itself sets
ValChars == {"/", "$", "C"}

(* --------------------------- text constants ---------------------------- *)

CC == <<"C", "C">>
DESTDIR == <<"D", "E", "S", "T", "D", "I", "R">>
CMAKE_SOURCE_DIR ==
    <<"C", "M", "A", "K", "E", "_", "S", "O", "U", "R", "C", "E", "_", "D", "I", "R">>
CMAKE_PREFIX == <<"C", "M", "A", "K", "E", "_", "P", "R", "E", "F", "I", "X">>

clang == <<"c", "l", "a", "n", "g">>
gcc == <<"g", "c", "c">>
slash == <<"/">>
stage == <<"/", "s", "t", "a", "g", "e">>

\* line 38
BaseCflags ==
    << <<"-", "f", "b", "l", "o", "c", "k", "s">>,
       <<"-", "W", "n", "o", "-", "s", "o", "m", "e", "t", "i", "m", "e", "s", "-",
         "u", "n", "i", "n", "i", "t", "i", "a", "l", "i", "z", "e", "d">> >>

\* line 39
BaseLdflags ==
    << <<"-", "g">>,
       <<"-", "l", "p", "e", "r", "s", "i", "s", "t">>,
       <<"-", "l", "r", "p", "c">> >>

\* an include path that is taken from the prefix instead of the source tree
IncludePrefixTemplate ==
    <<"-", "I", "$", "{", "C", "M", "A", "K", "E", "_", "P", "R", "E", "F", "I", "X",
      "}", "/", "i", "n", "c", "l", "u", "d", "e">>

\* line 44: '-I${CMAKE_SOURCE_DIR}/include'
IncludeSourceDirTemplate ==
    <<"-", "I", "$", "{", "C", "M", "A", "K", "E", "_", "S", "O", "U", "R", "C", "E",
      "_", "D", "I", "R", "}", "/", "i", "n", "c", "l", "u", "d", "e">>

\* line 45: '-I../../include/'
IncludeRelativeTemplate ==
    <<"-", "I", ".", ".", "/", ".", ".", "/", "i", "n", "c", "l", "u", "d", "e", "/">>

\* a library path that is taken from the prefix instead of the build tree
LibDirTemplatePrefixed ==
    <<"-", "L", "$", "{", "C", "M", "A", "K", "E", "_", "P", "R", "E", "F", "I", "X",
      "}", "/", "l", "i", "b">>

\* line 48: '-L../..'
LibDirTemplate ==
    <<"-", "L", ".", ".", "/", ".", ".">>

\* line 49: '-Wl,-rpath'
RpathTemplate ==
    <<"-", "W", "l", ",", "-", "r", "p", "a", "t", "h">>

\* a runtime library path that is taken from the source tree
RpathDirFromSourceDirTemplate ==
    <<"-", "W", "l", ",", "$", "{", "C", "M", "A", "K", "E", "_", "S", "O", "U", "R",
      "C", "E", "_", "D", "I", "R", "}", "/", "l", "i", "b">>

\* line 50: '-Wl,${CMAKE_PREFIX}/lib'
RpathDirTemplate ==
    <<"-", "W", "l", ",", "$", "{", "C", "M", "A", "K", "E", "_", "P", "R", "E", "F",
      "I", "X", "}", "/", "l", "i", "b">>

(* ------------------------- os.path.expandvars -------------------------- *)

\* the class \w of the pattern, compiled with re.ASCII
WordChars ==
    {"A", "B", "C", "D", "E", "F", "G", "H", "I", "J", "K", "L", "M", "N", "O", "P",
     "Q", "R", "S", "T", "U", "V", "W", "X", "Y", "Z",
     "a", "b", "c", "d", "e", "f", "g", "h", "i", "j", "k", "l", "m", "n", "o", "p",
     "q", "r", "s", "t", "u", "v", "w", "x", "y", "z",
     "0", "1", "2", "3", "4", "5", "6", "7", "8", "9", "_"}

\* '$' in path
HasDollar(path) == \E k \in 1..Len(path) : path[k] = "$"

\* positions of a "}" that closes a "${" opened at k
ClosingBraces(path, k) == {m \in (k + 2)..Len(path) : path[m] = "}"}

\* the pattern \$(\w+|\{[^}]*\}) matches at position k
MatchesAt(path, k) ==
    /\ k + 1 <= Len(path)
    /\ path[k] = "$"
    /\ \/ path[k + 1] \in WordChars
       \/ path[k + 1] = "{" /\ ClosingBraces(path, k) # {}

Min(S) == CHOOSE x \in S : \A y \in S : x <= y
Max(S) == CHOOSE x \in S : \A y \in S : x >= y

\* index of the last character of the match that starts at k
MatchLast(path, k) ==
    IF path[k + 1] = "{"
    THEN Min(ClosingBraces(path, k))
    ELSE Max({m \in (k + 1)..Len(path) :
                 \A n \in (k + 1)..m : path[n] \in WordChars})

\* m.group(1), with the braces stripped
MatchName(path, k) ==
    IF path[k + 1] = "{"
    THEN SubSeq(path, k + 2, MatchLast(path, k) - 1)
    ELSE SubSeq(path, k + 1, MatchLast(path, k))

\* a substitution that offers the substituted value to the next search
ResumeInsideValue(head, value) == Len(head) + 1

\* i = len(path), taken after path = path[:i] + value: the next search
\* starts behind the substituted value
ResumeAfterValue(head, value) == Len(head) + Len(value) + 1

\* an unset variable expands to nothing, as in a shell
SubstituteOrEmpty(path, k, e) ==
    LET last == MatchLast(path, k)
        name == MatchName(path, k)
        head == SubSeq(path, 1, k - 1)
        tail == SubSeq(path, last + 1, Len(path))
        value == IF name \in DOMAIN e THEN e[name] ELSE << >>
    IN  [path |-> head \o value \o tail, i |-> ResumeAfterValue(head, value)]

\* one turn of the loop for the match at k: the variable's value replaces
\* the reference; on KeyError the text is left alone and the search moves on
Substitute(path, k, e) ==
    LET last == MatchLast(path, k)
        name == MatchName(path, k)
        head == SubSeq(path, 1, k - 1)
        tail == SubSeq(path, last + 1, Len(path))
    IN  IF name \in DOMAIN e
        THEN [path |-> head \o e[name] \o tail,
              i |-> ResumeAfterValue(head, e[name])]
        ELSE [path |-> path, i |-> last + 1]

RECURSIVE ExpandFrom(_, _, _)
\* the while loop: search from i (1-based), substitute, repeat.  The result
\* carries the expanded text and the names looked up in the environment.
ExpandFrom(path, i, e) ==
    LET starts == {k \in i..Len(path) : MatchesAt(path, k)}
    IN  IF starts = {}
        THEN [out |-> path, looked |-> {}]
        ELSE LET k == Min(starts)
                 s == Substitute(path, k, e)
                 r == ExpandFrom(s.path, s.i, e)
             IN  [out |-> r.out, looked |-> r.looked \cup {MatchName(path, k)}]

expandvars(path, e) ==
    IF ~HasDollar(path)
    THEN [out |-> path, looked |-> {}]
    ELSE ExpandFrom(path, 1, e)

(* ----------------------------- os.environ ------------------------------ *)

\* an assignment that keeps a value that is already there
SetItemIfAbsent(e, k, v) ==
    [n \in DOMAIN e \cup {k} |-> IF n \in DOMAIN e THEN e[n] ELSE v]

\* os.environ[k] = v
SetItem(e, k, v) ==
    [n \in DOMAIN e \cup {k} |-> IF n = k THEN v ELSE e[n]]

\* a default that replaces a value that is already there
SetDefaultOverwrite(e, k, v) == SetItem(e, k, v)

\* os.environ.setdefault(k, v)
SetDefault(e, k, v) ==
    IF k \in DOMAIN e THEN e ELSE SetItem(e, k, v)

\* a test that looks at the wrong variable
PrefixPresent(e) == CMAKE_PREFIX \in DOMAIN e

\* a test of the value instead of the presence: os.environ.get(...)
SourceDirNonEmpty(e) ==
    CMAKE_SOURCE_DIR \in DOMAIN e /\ e[CMAKE_SOURCE_DIR] # << >>

\* 'CMAKE_SOURCE_DIR' in os.environ
SourceDirPresent(e) == CMAKE_SOURCE_DIR \in DOMAIN e

\* what one lookup of the environment observes
ReadOf(e, name, line) ==
    [name |-> name, line |-> line, present |-> name \in DOMAIN e,
     val |-> IF name \in DOMAIN e THEN e[name] ELSE << >>]

ReadsOf(e, names, line) == {ReadOf(e, n, line) : n \in names}

(* ------------------------------ the script ----------------------------- *)

VARIABLES
    pc,         \* the line the script is about to execute
    env0,       \* os.environ when the script starts
    env,        \* os.environ
    cflags,     \* the list cflags
    ldflags,    \* the list ldflags
    reads,      \* lookups of os.environ made so far
    setupCalls  \* the keyword arguments of each call of setup()

vars == <<pc, env0, env, cflags, ldflags, reads, setupCalls>>

RECURSIVE TextsUpTo(_)
\* all texts over ValChars of length at most n
TextsUpTo(n) ==
    IF n = 0
    THEN {<< >>}
    ELSE LET shorter == TextsUpTo(n - 1)
         IN  shorter \cup {Append(t, c) : t \in shorter, c \in ValChars}

\* a variable is absent (<<>>) or present with one value (<<v>>)
Optional(values) == {<< >>} \cup {<<v>> : v \in values}

PathValues == TextsUpTo(MaxValLen)
DestdirValues == {<< >>, slash, stage}
CompilerValues == {gcc, clang}

\* the environment in which the four variables are absent or present as given
Environ(src, prefix, dest, cc) ==
    LET given == [n \in {CMAKE_SOURCE_DIR, CMAKE_PREFIX, DESTDIR, CC} |->
                     IF n = CMAKE_SOURCE_DIR THEN src
                     ELSE IF n = CMAKE_PREFIX THEN prefix
                     ELSE IF n = DESTDIR THEN dest
                     ELSE cc]
    IN  [n \in {m \in DOMAIN given : given[m] # << >>} |-> given[n][1]]

Init ==
    /\ \E src \in Optional(PathValues), prefix \in Optional(PathValues),
          dest \in Optional(DestdirValues), cc \in Optional(CompilerValues) :
          env0 = Environ(src, prefix, dest, cc)
    /\ env = env0
    /\ pc = "L36"
    /\ cflags = << >>
    /\ ldflags = << >>
    /\ reads = {}
    /\ setupCalls = << >>

\* line 36: os.environ['CC'] = 'clang'
SetCC ==
    /\ pc = "L36"
    /\ env' = SetItem(env, CC, clang)
    /\ pc' = "L37"
    /\ UNCHANGED <<env0, cflags, ldflags, reads, setupCalls>>

\* line 37: os.environ.setdefault('DESTDIR', '/')
SetDefaultDestdir ==
    /\ pc = "L37"
    /\ reads' = reads \cup ReadsOf(env, {DESTDIR}, 37)
    /\ env' = SetDefault(env, DESTDIR, slash)
    /\ pc' = "L38"
    /\ UNCHANGED <<env0, cflags, ldflags, setupCalls>>

\* line 38
InitCflags ==
    /\ pc = "L38"
    /\ cflags' = BaseCflags
    /\ pc' = "L39"
    /\ UNCHANGED <<env0, env, ldflags, reads, setupCalls>>

\* line 39
InitLdflags ==
    /\ pc = "L39"
    /\ ldflags' = BaseLdflags
    /\ pc' = "L42"
    /\ UNCHANGED <<env0, env, cflags, reads, setupCalls>>

\* line 42: if 'CMAKE_SOURCE_DIR' in os.environ
TestSourceDir ==
    /\ pc = "L42"
    /\ reads' = reads \cup ReadsOf(env, {CMAKE_SOURCE_DIR}, 42)
    /\ pc' = IF SourceDirPresent(env) THEN "L43" ELSE "L54"
    /\ UNCHANGED <<env0, env, cflags, ldflags, setupCalls>>

\* lines 43-46: cflags += [expandvars(...), expandvars(...)]
ExtendCflags ==
    /\ pc = "L43"
    /\ LET a == expandvars(IncludeSourceDirTemplate, env)
           b == expandvars(IncludeRelativeTemplate, env)
       IN  /\ cflags' = cflags \o <<a.out, b.out>>
           /\ reads' = reads \cup ReadsOf(env, a.looked, 44)
                             \cup ReadsOf(env, b.looked, 45)
    /\ pc' = "L47"
    /\ UNCHANGED <<env0, env, ldflags, setupCalls>>

\* lines 47-51: ldflags += [expandvars(...), expandvars(...), expandvars(...)]
ExtendLdflags ==
    /\ pc = "L47"
    /\ LET a == expandvars(LibDirTemplate, env)
           b == expandvars(RpathTemplate, env)
           c == expandvars(RpathDirTemplate, env)
       IN  /\ ldflags' = ldflags \o <<a.out, b.out, c.out>>
           /\ reads' = reads \cup ReadsOf(env, a.looked, 48)
                             \cup ReadsOf(env, b.looked, 49)
                             \cup ReadsOf(env, c.looked, 50)
    /\ pc' = "L54"
    /\ UNCHANGED <<env0, env, cflags, setupCalls>>

\* an extension list whose module is named after the library it links
ExtModulesMisnamed(cf, ld) ==
    << [name |-> "rpc", sources |-> <<"persist.pyx">>,
        extra_compile_args |-> cf, extra_link_args |-> ld] >>

\* lines 60-67: ext_modules=[Extension("persist", ["persist.pyx"], ...)]
ExtModules(cf, ld) ==
    << [name |-> "persist", sources |-> <<"persist.pyx">>,
        extra_compile_args |-> cf, extra_link_args |-> ld] >>

\* lines 54-68: setup(...)
CallSetup ==
    /\ pc = "L54"
    /\ setupCalls' = Append(setupCalls,
           [name |-> "persist", version |-> "1.0", packages |-> <<"">>,
            ext_modules |-> ExtModules(cflags, ldflags),
            environ |-> env])
    /\ pc' = "done"
    /\ UNCHANGED <<env0, env, cflags, ldflags, reads>>

Next ==
    \/ SetCC
    \/ SetDefaultDestdir
    \/ InitCflags
    \/ InitLdflags
    \/ TestSourceDir
    \/ ExtendCflags
    \/ ExtendLdflags
    \/ CallSetup

Spec == Init /\ [][Next]_vars

(* ------------------------- expected flag texts ------------------------- *)

TextFblocks == <<"-", "f", "b", "l", "o", "c", "k", "s">>
TextWno ==
    <<"-", "W", "n", "o", "-", "s", "o", "m", "e", "t", "i", "m", "e", "s", "-",
      "u", "n", "i", "n", "i", "t", "i", "a", "l", "i", "z", "e", "d">>
TextG == <<"-", "g">>
TextLpersist == <<"-", "l", "p", "e", "r", "s", "i", "s", "t">>
TextLrpc == <<"-", "l", "r", "p", "c">>
TextLibDir == <<"-", "L", ".", ".", "/", ".", ".">>
TextRpath == <<"-", "W", "l", ",", "-", "r", "p", "a", "t", "h">>
TextIncludeRelative ==
    <<"-", "I", ".", ".", "/", ".", ".", "/", "i", "n", "c", "l", "u", "d", "e", "/">>
TextIncludeOfEmpty == <<"-", "I", "/", "i", "n", "c", "l", "u", "d", "e">>
TextRpathDirUnexpanded ==
    <<"-", "W", "l", ",", "$", "{", "C", "M", "A", "K", "E", "_", "P", "R", "E", "F",
      "I", "X", "}", "/", "l", "i", "b">>
TextIncludeOf(dir) == <<"-", "I">> \o dir \o <<"/", "i", "n", "c", "l", "u", "d", "e">>
TextRpathDirOf(prefix) == <<"-", "W", "l", ",">> \o prefix \o <<"/", "l", "i", "b">>
TextReferenceToCC == <<"$", "C", "C">>

\* the extension modules handed to setup(), over all calls
PassedExtensions ==
    UNION {{setupCalls[i].ext_modules[j] : j \in 1..Len(setupCalls[i].ext_modules)} :
              i \in 1..Len(setupCalls)}

Contains(list, text) == \E k \in 1..Len(list) : list[k] = text

StartsWith(text, head) ==
    Len(text) >= Len(head) /\ SubSeq(text, 1, Len(head)) = head

EndsWith(text, end) ==
    /\ Len(text) >= Len(end)
    /\ SubSeq(text, Len(text) - Len(end) + 1, Len(text)) = end

SourceDirSet == CMAKE_SOURCE_DIR \in DOMAIN env0
PrefixSet == CMAKE_PREFIX \in DOMAIN env0

(* -------------------------------- claims ------------------------------- *)

\* C1: when CMAKE_SOURCE_DIR is absent from the environment, whatever
\* CMAKE_PREFIX, DESTDIR and CC are, the extension receives exactly the
\* compile flags ['-fblocks', '-Wno-sometimes-uninitialized'] and exactly the
\* link flags ['-g', '-lpersist', '-lrpc'].
C1_BaseFlagsWithoutSourceDir ==
    \A x \in PassedExtensions :
        ~SourceDirSet =>
            /\ x.extra_compile_args = <<TextFblocks, TextWno>>
            /\ x.extra_link_args = <<TextG, TextLpersist, TextLrpc>>

C1_Witness ==
    /\ PassedExtensions # {}
    /\ ~SourceDirSet
    /\ PrefixSet /\ env0[CMAKE_PREFIX] = slash
    /\ DESTDIR \in DOMAIN env0 /\ env0[DESTDIR] = stage
    /\ CC \in DOMAIN env0 /\ env0[CC] = gcc

\* C2: when CMAKE_SOURCE_DIR and CMAKE_PREFIX are both set, the extension
\* receives exactly the link flags ['-g', '-lpersist', '-lrpc', '-L../..',
\* '-Wl,-rpath', '-Wl,<CMAKE_PREFIX>/lib'], the last one built from the
\* variable's value.
C2_LinkFlagsWithSourceDirAndPrefix ==
    \A x \in PassedExtensions :
        (SourceDirSet /\ PrefixSet) =>
            x.extra_link_args =
                <<TextG, TextLpersist, TextLrpc, TextLibDir, TextRpath,
                  TextRpathDirOf(env0[CMAKE_PREFIX])>>

C2_Witness ==
    /\ PassedExtensions # {}
    /\ SourceDirSet /\ env0[CMAKE_SOURCE_DIR] = <<"/", "C">>
    /\ PrefixSet /\ env0[CMAKE_PREFIX] = TextReferenceToCC

\* C3: when CMAKE_SOURCE_DIR is set, the extension receives exactly the
\* compile flags ['-fblocks', '-Wno-sometimes-uninitialized',
\* '-I<CMAKE_SOURCE_DIR>/include', '-I../../include/'], and the link flags
\* have, behind the three fixed ones, a '-L' library search path.
C3_SearchPathsWithSourceDir ==
    \A x \in PassedExtensions :
        SourceDirSet =>
            /\ x.extra_compile_args =
                   <<TextFblocks, TextWno, TextIncludeOf(env0[CMAKE_SOURCE_DIR]),
                     TextIncludeRelative>>
            /\ \E k \in 4..Len(x.extra_link_args) :
                   StartsWith(x.extra_link_args[k], <<"-", "L">>)

C3_Witness ==
    /\ PassedExtensions # {}
    /\ SourceDirSet /\ env0[CMAKE_SOURCE_DIR] = <<"/", "C", "C">>
    /\ ~PrefixSet

\* C4 as stated: in every run in which CMAKE_PREFIX is set, whether or not
\* CMAKE_SOURCE_DIR is set, the link flags contain '-Wl,<CMAKE_PREFIX>/lib'.
C4_Original ==
    \A x \in PassedExtensions :
        PrefixSet =>
            Contains(x.extra_link_args, TextRpathDirOf(env0[CMAKE_PREFIX]))

\* C4 as amended: CMAKE_PREFIX is used for the runtime library search path
\* only together with CMAKE_SOURCE_DIR.  When both are set, the link flags
\* contain '-Wl,<CMAKE_PREFIX>/lib' built from its value; when
\* CMAKE_SOURCE_DIR is not set, no link flag starts with '-Wl,' whatever
\* CMAKE_PREFIX is.
C4_PrefixUsedOnlyWithSourceDir ==
    \A x \in PassedExtensions :
        /\ (PrefixSet /\ SourceDirSet) =>
               Contains(x.extra_link_args, TextRpathDirOf(env0[CMAKE_PREFIX]))
        /\ ~SourceDirSet =>
               \A k \in 1..Len(x.extra_link_args) :
                   ~StartsWith(x.extra_link_args[k], <<"-", "W", "l", ",">>)

C4_Witness ==
    /\ PassedExtensions # {}
    /\ SourceDirSet /\ env0[CMAKE_SOURCE_DIR] = << >>
    /\ PrefixSet /\ env0[CMAKE_PREFIX] = <<"/", "$", "C">>

\* C5: whenever setup() is about to be invoked or has been invoked, CC is
\* present in the environment with the value 'clang', whatever CC was at the
\* start.
C5_CompilerPinnedToClang ==
    /\ pc \in {"L54", "done"} => (CC \in DOMAIN env /\ env[CC] = clang)
    /\ \A i \in 1..Len(setupCalls) :
           /\ CC \in DOMAIN setupCalls[i].environ
           /\ setupCalls[i].environ[CC] = clang

C5_Witness ==
    /\ Len(setupCalls) = 1
    /\ CC \in DOMAIN env0 /\ env0[CC] = gcc
    /\ setupCalls[1].environ[CC] = clang

\* C6: once line 37 has run, DESTDIR is present; it is '/' if it was absent
\* at the start and it has its initial value, the empty one included, if it
\* was present.
C6_DestdirDefault ==
    pc \notin {"L36", "L37"} =>
        /\ DESTDIR \in DOMAIN env
        /\ env[DESTDIR] = IF DESTDIR \in DOMAIN env0 THEN env0[DESTDIR] ELSE slash

C6_Witness ==
    /\ pc = "L38"
    /\ DESTDIR \in DOMAIN env0 /\ env0[DESTDIR] = << >>
    /\ env[DESTDIR] = << >>

\* C7: every call of setup() carries exactly one extension module, named
\* 'persist', whose sources are exactly ['persist.pyx'], whatever the
\* environment is.
C7_OneExtensionNamedPersist ==
    \A i \in 1..Len(setupCalls) :
        /\ Len(setupCalls[i].ext_modules) = 1
        /\ setupCalls[i].ext_modules[1].name = "persist"
        /\ setupCalls[i].ext_modules[1].sources = <<"persist.pyx">>

C7_Witness ==
    /\ Len(setupCalls) = 1
    /\ SourceDirSet /\ PrefixSet
    /\ DESTDIR \notin DOMAIN env0 /\ CC \notin DOMAIN env0

\* C8 as stated: no consumed environment variable is looked up at two
\* distinct lines of the script.
C8_Original ==
    \A r1 \in reads : \A r2 \in reads :
        r1.name = r2.name => r1.line = r2.line

\* C8 as amended: DESTDIR is looked up at line 37 only and CMAKE_PREFIX at
\* line 50 only; CMAKE_SOURCE_DIR is looked up at line 42 (the presence
\* test) and again at line 44 (the expansion); nothing else is looked up.
\* The script does not change CMAKE_SOURCE_DIR or CMAKE_PREFIX, so any two
\* lookups of one variable observe the same presence and the same value.
C8_LookupsPerVariable ==
    /\ \A r \in reads :
           \/ r.name = DESTDIR /\ r.line = 37
           \/ r.name = CMAKE_PREFIX /\ r.line = 50
           \/ r.name = CMAKE_SOURCE_DIR /\ r.line \in {42, 44}
    /\ \A r1 \in reads : \A r2 \in reads :
           r1.name = r2.name => (r1.present = r2.present /\ r1.val = r2.val)
    /\ \A n \in {CMAKE_SOURCE_DIR, CMAKE_PREFIX} :
           /\ n \in DOMAIN env <=> n \in DOMAIN env0
           /\ n \in DOMAIN env => env[n] = env0[n]

C8_Witness ==
    /\ \E r \in reads : r.name = CMAKE_SOURCE_DIR /\ r.line = 42 /\ r.present
    /\ \E r \in reads : r.name = CMAKE_SOURCE_DIR /\ r.line = 44 /\ r.present
    /\ \E r \in reads : r.name = CMAKE_PREFIX /\ r.line = 50
    /\ \E r \in reads : r.name = DESTDIR /\ r.line = 37

\* C9: when CMAKE_SOURCE_DIR is set and CMAKE_PREFIX is not, the link flags
\* handed to the extension are six and the last one is the unexpanded text
\* '-Wl,${CMAKE_PREFIX}/lib'.
C9_UnsetPrefixLeftUnexpanded ==
    \A x \in PassedExtensions :
        (SourceDirSet /\ ~PrefixSet) =>
            /\ Len(x.extra_link_args) = 6
            /\ x.extra_link_args[6] = TextRpathDirUnexpanded

C9_Witness ==
    /\ pc = "done"
    /\ PassedExtensions # {}
    /\ SourceDirSet /\ env0[CMAKE_SOURCE_DIR] = <<"/">>
    /\ ~PrefixSet

\* C10: the two extra '-I' compile flags and the three extra link flags
\* ('-L../..', '-Wl,-rpath', '-Wl,.../lib') are all there if CMAKE_SOURCE_DIR
\* is present, an empty value included (which gives '-I/include'), and none
\* of them is there otherwise: the compile list has 2 or 4 entries, the link
\* list 3 or 6, and 4 goes with 6.
C10_ExtrasAllOrNothing ==
    \A x \in PassedExtensions :
        LET cf == x.extra_compile_args
            ld == x.extra_link_args
        IN  /\ Len(cf) \in {2, 4}
            /\ Len(ld) \in {3, 6}
            /\ Len(cf) = 4 <=> Len(ld) = 6
            /\ Len(cf) = 4 <=> SourceDirSet
            /\ SourceDirSet =>
                   /\ StartsWith(cf[3], <<"-", "I">>)
                   /\ StartsWith(cf[4], <<"-", "I">>)
                   /\ ld[4] = TextLibDir
                   /\ ld[5] = TextRpath
                   /\ StartsWith(ld[6], <<"-", "W", "l", ",">>)
                   /\ EndsWith(ld[6], <<"/", "l", "i", "b">>)
            /\ (SourceDirSet /\ env0[CMAKE_SOURCE_DIR] = << >>) =>
                   cf[3] = TextIncludeOfEmpty

C10_Witness ==
    /\ PassedExtensions # {}
    /\ SourceDirSet /\ env0[CMAKE_SOURCE_DIR] = << >>
    /\ Len(setupCalls[1].ext_modules[1].extra_compile_args) = 4
    /\ Len(setupCalls[1].ext_modules[1].extra_link_args) = 6

====
